---- MODULE Spec2Model ----
(***************************************************************************)
(* streamdeck-youtube-emotes: a run of the generator (src/main.rs `main`)  *)
(* and the page layout it computes (src/profile.rs                         *)
(* `ProfilesWithImages::new`).                                             *)
(*                                                                         *)
(* A run downloads every emote image concurrently, lays the images out on  *)
(* pages of the device's button grid, links the pages with Back / Forward  *)
(* buttons, and writes one manifest per page, merging it with a manifest   *)
(* that already exists at the same path.                                   *)
(***************************************************************************)
EXTENDS Integers, Sequences, FiniteSets, TLC

VARIABLES
    model,            \* args.model: the device model
    name,             \* args.name: the profile (configuration) name
    profile_uuid,     \* args.profile_uuid: Option<Uuid>, None or Some(u)
    no_merge,         \* args.no_merge
    prefix,           \* args.prefix, the leading underscore stripped
    include_labels,   \* args.include_labels
    prioritize,       \* args.prioritize
    deprioritize,     \* args.deprioritize
    emotes,           \* the emote list handed to ProfilesWithImages::new
    dl,               \* per emote, where its download future stands
    pc,               \* where the run stands
    idx,              \* number of images the layout loop has consumed
    manifests,        \* Vec<(Uuid, ProfileManifest)>
    manifest_actions, \* Vec<Option<Action>>: the slot list of the page being filled
    depth,            \* the write loop's depth counter
    fs,               \* manifest.json files: path -> file content
    img_files,        \* state0.png files written: set of <<path, "x,y">>
    observed,         \* per written page, what merge read at the manifest path
    warnings,         \* depths at which the merge failure warning was logged
    runs              \* number of runs started on the output location

vars == <<model, name, profile_uuid, no_merge, prefix, include_labels, prioritize,
          deprioritize, emotes, dl, pc, idx, manifests, manifest_actions, depth,
          fs, img_files, observed, warnings, runs>>

(***************************************************************************)
(* Bounds of the model.                                                    *)
(***************************************************************************)
\* SpecLayout lays out up to MaxPages full pages on every device model.
MaxPages == 3
\* Spec runs the whole program on at most MaxEmotes emotes.
MaxEmotes == 5

\* Profile names the runs are given.
Names == {"a", "b"}

(***************************************************************************)
(* Strings whose characters matter (emote names, the prefix, the pasted   *)
(* text) are sequences of characters, a character a one-letter string.    *)
(***************************************************************************)
LowerCase == <<"a", "b", "c", "d", "e", "f", "g", "h", "i", "j", "k", "l", "m",
               "n", "o", "p", "q", "r", "s", "t", "u", "v", "w", "x", "y", "z">>
UpperCase == <<"A", "B", "C", "D", "E", "F", "G", "H", "I", "J", "K", "L", "M",
               "N", "O", "P", "Q", "R", "S", "T", "U", "V", "W", "X", "Y", "Z">>
DigitChars == <<"0", "1", "2", "3", "4", "5", "6", "7", "8", "9">>

\* Characters outside ASCII: their UTF-8 encoding takes two bytes.
TwoByteChars == {"é", "É"}

\* The length of the character's UTF-8 encoding.
Utf8Len(ch) == IF ch \in TwoByteChars THEN 2 ELSE 1

\* u8::make_ascii_uppercase / to_ascii_lowercase on a character: only the
\* ASCII letters change.
ascii_uppercase(ch) ==
    IF \E i \in DOMAIN LowerCase : LowerCase[i] = ch
    THEN UpperCase[CHOOSE i \in DOMAIN LowerCase : LowerCase[i] = ch]
    ELSE ch

ascii_lowercase(ch) ==
    IF \E i \in DOMAIN UpperCase : UpperCase[i] = ch
    THEN LowerCase[CHOOSE i \in DOMAIN UpperCase : UpperCase[i] = ch]
    ELSE ch

\* str::to_ascii_lowercase
to_ascii_lowercase(str) == [i \in DOMAIN str |-> ascii_lowercase(str[i])]

\* The decimal digits of a number.
RECURSIVE Digits(_)
Digits(k) ==
    IF k < 10 THEN <<DigitChars[k + 1]>>
    ELSE Digits(k \div 10) \o <<DigitChars[(k % 10) + 1]>>

\* The emote lists the runs are given: emote k of a channel's list, the
\* lists of two channels differing in every name and url.
Channels == {<<"h", "i", "c">>, <<"S", "m", "a", "l", "l">>}
Emote(c, k) == [name |-> c \o Digits(k),
                url |-> <<"https://yt3.ggpht.com/">> \o c \o Digits(k)]
EmoteList(c, n) == [k \in 1..n |-> Emote(c, k)]

\* The values of --prefix the runs are given.
Pomu == <<"p", "o", "m", "u">>
PrefixArgs == {<<>>, <<"_">> \o Pomu}

\* main: args.prefix.strip_prefix('_'): one leading underscore is dropped.
strip_underscore(arg) ==
    IF arg # <<>> /\ arg[1] = "_" THEN Tail(arg) ELSE arg

(***************************************************************************)
(* Option<T>: None is the empty sequence, Some(v) the one-element one.     *)
(***************************************************************************)
None == <<>>
Some(v) == <<v>>
IsSome(o) == o # <<>>
Unwrap(o) == o[1]

\* A u8 value: the `as u8` cast and u8 arithmetic.
U8(v) == v % 256

(***************************************************************************)
(* Device models (src/profile.rs, DeviceModel).                            *)
(***************************************************************************)
DeviceModels == {"Standard", "XL", "Mini"}

\* DeviceModel::size: (width, height).
size(m) ==
    CASE m = "Standard" -> <<5, 3>>
      [] m = "XL"       -> <<4, 8>>
      [] m = "Mini"     -> <<3, 2>>

\* DeviceModel::id, the serialized form of the model.
id(m) ==
    CASE m = "Standard" -> "20GBA9901"
      [] m = "XL"       -> "20GAT9901"
      [] m = "Mini"     -> "unknown"

Width(m) == size(m)[1]
Height(m) == size(m)[2]

\* let max_len = (width * height) as usize;
max_len(m) == U8(Width(m) * Height(m))

(***************************************************************************)
(* Identifiers.  uuid_v5 hashes the string "<url>#{name}_page{page}" into  *)
(* the URL namespace; the hash is taken to be collision free, so a         *)
(* derived identifier is represented by the string it is the hash of.      *)
(* Foreign stands for any identifier that is the hash of no such string.   *)
(***************************************************************************)
uuid_v5(nm, page) == nm \o "_page" \o ToString(page)

Foreign == "AC20BCF3"

\* The values of --profile-uuid the runs are given: absent, an identifier
\* unrelated to the derivation, and identifiers that the derivation also
\* produces.
ProfileUuidArgs ==
    {None, Some(Foreign)} \cup {Some(uuid_v5(nm, 1)) : nm \in Names}

\* main: args.profile_uuid.unwrap_or_else(|| profile::uuid_v5(&args.name, 0))
root_profile_uuid(arg, nm) == IF IsSome(arg) THEN Unwrap(arg) ELSE uuid_v5(nm, 0)

(***************************************************************************)
(* Positions and buttons.                                                  *)
(***************************************************************************)
Position(x, y) == [x |-> x, y |-> y]

\* name.get_mut(0..1): the first byte as a string slice, when the name is
\* not empty and byte 1 is a character boundary.
first_byte_is_char(nm) == nm # <<>> /\ Utf8Len(nm[1]) = 1

Capitalized_always(pre, nm) ==
    IF first_byte_is_char(nm) THEN <<ascii_uppercase(nm[1])>> \o Tail(nm) ELSE nm

\* let mut name = self.name.clone(); if !prefix.is_empty() &&
\* !name.is_empty() { name.get_mut(0..1).make_ascii_uppercase() }
Capitalized(pre, nm) ==
    IF pre # <<>> /\ nm # <<>> /\ first_byte_is_char(nm)
    THEN <<ascii_uppercase(nm[1])>> \o Tail(nm)
    ELSE nm

\* format!(":_{}{}:", prefix, name)
pasted_text(pre, nm) == <<":", "_">> \o pre \o Capitalized(pre, nm) \o <<":">>

\* Emote::to_action: the content button of an emote.
to_action(emote, pre, include_label) ==
    [name |-> "Text",
     title |-> IF include_label THEN emote.name ELSE <<>>,
     settings |-> [uuid |-> "text", pasted_text |-> pasted_text(pre, emote.name)]]

\* The "Open Folder" button of every page but the first.
BackAction ==
    [name |-> "Open Folder", title |-> <<"B", "a", "c", "k">>,
     settings |-> [uuid |-> "backtoparent"]]

\* The "Create Folder" button that opens the child page.
ForwardAction(child) ==
    [name |-> "Create Folder", title |-> <<"N", "e", "x", "t">>,
     settings |-> [uuid |-> "openchild", profile_uuid |-> child]]

\* HashMap::insert and HashMap::remove on a function.
MapInsert(f, k, v) == [q \in (DOMAIN f) \cup {k} |-> IF q = k THEN v ELSE f[q]]
MapRemove(f, k) == [q \in (DOMAIN f) \ {k} |-> f[q]]

EmptyMap == <<>>

\* ProfileManifest::set_actions: slot `index` goes to position
\* (index % width, index / width), the index cast to u8 first; a Some slot
\* is inserted, a None slot removes what is there.
SlotPosition_swapped(index, width) ==
    Position(U8(index) \div width, U8(index) % width)

\* let index = index as u8; Position::new(index % width, index / width)
SlotPosition(index, width) ==
    Position(U8(index) % width, U8(index) \div width)

RECURSIVE set_actions_from(_, _, _, _)
set_actions_from(acts, slots, index, width) ==
    IF index >= Len(slots) THEN acts
    ELSE LET pos == SlotPosition(index, width)
             slot == slots[index + 1]
             nxt == IF IsSome(slot) THEN MapInsert(acts, pos, Unwrap(slot))
                    ELSE MapRemove(acts, pos)
         IN set_actions_from(nxt, slots, index + 1, width)

set_actions(acts, slots, m) == set_actions_from(acts, slots, 0, Width(m))

manifest_uuid_derived(ms, root, nm) == uuid_v5(nm, Len(ms))

\* The identifier of the page being finalized: the root identifier for the
\* first page, uuid_v5(name, manifests.len()) for every later one.
manifest_uuid(ms, root, nm) ==
    IF Len(ms) = 0 THEN root ELSE uuid_v5(nm, Len(ms))

\* A finalized page: a fresh manifest filled by set_actions.
NewManifest(ms, slots, root, nm, m) ==
    [uuid |-> manifest_uuid(ms, root, nm),
     actions |-> set_actions(EmptyMap, slots, m)]

PageIsFull_gt(slots, m) == Len(slots) > max_len(m)

\* if manifest_actions.len() >= max_len { ...finalize the page... }
PageIsFull(slots, m) == Len(slots) >= max_len(m)

StartsRow_first(slots, m) == Len(slots) = 0

\* if manifest_actions.len() % width == 0 { manifest_actions.push(None) }
StartsRow(slots, m) == Len(slots) % Width(m) = 0

\* for (_, manifest) in manifests.iter_mut().skip(1): insert Back at (0, 0).
HasBack(i) == i > 1

InsertBack(ms) ==
    [i \in 1..Len(ms) |->
        IF HasBack(i)
        THEN [ms[i] EXCEPT !.actions = MapInsert(@, Position(0, 0), BackAction)]
        ELSE ms[i]]

ChildOf_self(ms, i) == ms[i].uuid

\* for (uuid, manifest) in manifests.iter_mut().rev(): every page that has a
\* child gets Forward at (0, height - 1) carrying the child's identifier.
ChildOf(ms, i) == ms[i + 1].uuid

InsertForward_last_cell(ms, m) ==
    [i \in 1..Len(ms) |->
        IF i < Len(ms)
        THEN [ms[i] EXCEPT !.actions =
                 MapInsert(@, Position(U8(Width(m) - 1), U8(Height(m) - 1)),
                           ForwardAction(ChildOf(ms, i)))]
        ELSE ms[i]]

InsertForward(ms, m) ==
    [i \in 1..Len(ms) |->
        IF i < Len(ms)
        THEN [ms[i] EXCEPT !.actions =
                 MapInsert(@, Position(0, U8(Height(m) - 1)),
                           ForwardAction(ChildOf(ms, i)))]
        ELSE ms[i]]

(***************************************************************************)
(* The layout loop of ProfilesWithImages::new.                             *)
(***************************************************************************)
Root == root_profile_uuid(profile_uuid, name)

\* One iteration of `for image in images.into_iter()`.
LayoutStep ==
    /\ pc = "layout"
    /\ idx < Len(emotes)
    /\ LET image == emotes[idx + 1]
           full == PageIsFull(manifest_actions, model)
           ms1 == IF full
                  THEN Append(manifests,
                              NewManifest(manifests, manifest_actions, Root, name, model))
                  ELSE manifests
           s1 == IF full THEN <<>> ELSE manifest_actions
           s2 == IF StartsRow(s1, model) THEN Append(s1, None) ELSE s1
           s3 == Append(s2, Some(to_action(image, prefix, include_labels)))
       IN /\ manifests' = ms1
          /\ manifest_actions' = s3
    /\ idx' = idx + 1
    /\ UNCHANGED <<model, name, profile_uuid, no_merge, prefix, include_labels,
                   prioritize, deprioritize, runs, emotes, dl, pc, depth,
                   fs, img_files, observed, warnings>>

\* After the loop: the last page is finalized when its slot list is not
\* empty, then the Back and the Forward buttons are inserted.
LayoutFinish ==
    /\ pc = "layout"
    /\ idx = Len(emotes)
    /\ LET ms1 == IF manifest_actions # <<>>
                  THEN Append(manifests,
                              NewManifest(manifests, manifest_actions, Root, name, model))
                  ELSE manifests
       IN manifests' = InsertForward(InsertBack(ms1), model)
    /\ manifest_actions' = <<>>
    /\ pc' = "write"
    /\ UNCHANGED <<model, name, profile_uuid, no_merge, prefix, include_labels,
                   prioritize, deprioritize, runs, emotes, dl, idx, depth,
                   fs, img_files, observed, warnings>>

(***************************************************************************)
(* SpecLayout: the layout alone, from the state in which join_all has      *)
(* returned every image, for every device model and every emote count up   *)
(* to MaxPages full pages.                                                 *)
(***************************************************************************)
PerPage(m) == (Width(m) - 1) * Height(m)

InitLayout ==
    /\ model \in DeviceModels
    /\ name \in Names
    /\ profile_uuid \in ProfileUuidArgs
    /\ no_merge \in {FALSE}
    /\ \E arg \in PrefixArgs : prefix = strip_underscore(arg)
    /\ include_labels = FALSE
    /\ prioritize = <<>>
    /\ deprioritize = <<>>
    /\ runs = 1
    /\ \E n \in 0..(MaxPages * PerPage(model)), c \in Channels :
          emotes = EmoteList(c, n)
    /\ dl = [k \in 1..Len(emotes) |-> "ok"]
    /\ pc = "layout"
    /\ idx = 0
    /\ manifests = <<>>
    /\ manifest_actions = <<>>
    /\ depth = 0
    /\ fs = <<>>
    /\ img_files = {}
    /\ observed = <<>>
    /\ warnings = {}

NextLayout == LayoutStep \/ LayoutFinish

SpecLayout == InitLayout /\ [][NextLayout]_vars

(***************************************************************************)
(* SpecPayload: the layout of a single emote, for every name of up to      *)
(* MaxLabelLen characters and the names of the unit tests, under every     *)
(* prefix argument below.                                                  *)
(***************************************************************************)
MaxLabelLen == 2

LabelChars == {"s", "S", "9", "_", "é"}

Small9cm == <<"s", "m", "a", "l", "l", "9", "c", "m">>
Hic1 == <<"h", "i", "c", "1">>

Labels ==
    (UNION {[1..k -> LabelChars] : k \in 0..MaxLabelLen}) \cup {Small9cm, Hic1}

PayloadPrefixArgs ==
    {<<>>, <<"_">>, Pomu, <<"_">> \o Pomu, <<"_", "_", "p">>, <<"é">>}

InitPayload ==
    /\ model = "Mini"
    /\ name = "a"
    /\ profile_uuid = None
    /\ no_merge = FALSE
    /\ \E arg \in PayloadPrefixArgs : prefix = strip_underscore(arg)
    /\ include_labels \in BOOLEAN
    /\ prioritize = <<>>
    /\ deprioritize = <<>>
    /\ runs = 1
    /\ \E label \in Labels :
          emotes = <<[name |-> label, url |-> <<"https://yt3.ggpht.com/">> \o label]>>
    /\ dl = [k \in 1..Len(emotes) |-> "ok"]
    /\ pc = "layout"
    /\ idx = 0
    /\ manifests = <<>>
    /\ manifest_actions = <<>>
    /\ depth = 0
    /\ fs = <<>>
    /\ img_files = {}
    /\ observed = <<>>
    /\ warnings = {}

SpecPayload == InitPayload /\ [][NextLayout]_vars

(***************************************************************************)
(* The reordering of the parsed emotes (main, sort_by_cached_key).         *)
(***************************************************************************)
\* list.iter().position(|name| name.to_ascii_lowercase() == lower_name):
\* the 0-based index of the first match, None when there is none.
position(list, lower_name) ==
    LET hits == {i \in DOMAIN list : to_ascii_lowercase(list[i]) = lower_name}
    IN IF hits = {} THEN None
       ELSE Some((CHOOSE i \in hits : \A j \in hits : i <= j) - 1)

\* The key closure: the position in `prioritize`, else the position in
\* `deprioritize` + emotes_count + 1, else emotes_count.
sort_key(emote, prio, deprio, emotes_count) ==
    LET lower_name == to_ascii_lowercase(emote.name)
        p == position(prio, lower_name)
        d == position(deprio, lower_name)
    IN IF IsSome(p) THEN Unwrap(p)
       ELSE IF IsSome(d) THEN Unwrap(d) + emotes_count + 1
       ELSE emotes_count

\* slice::sort_by_cached_key: a stable sort, elements of equal key keep
\* their order.
sort_by_cached_key(list, prio, deprio) ==
    LET key(i) == sort_key(list[i], prio, deprio, Len(list))
        rank(i) == Cardinality({j \in DOMAIN list :
                        key(j) < key(i) \/ (key(j) = key(i) /\ j < i)}) + 1
    IN [r \in DOMAIN list |-> list[CHOOSE i \in DOMAIN list : rank(i) = r]]

\* let mut emotes = youtube::parse_emotes(&html)?; emotes.sort_by_cached_key(..)
SortEmotes ==
    /\ pc = "sort"
    /\ emotes' = sort_by_cached_key(emotes, prioritize, deprioritize)
    /\ pc' = "fetch"
    /\ UNCHANGED <<model, name, profile_uuid, no_merge, prefix, include_labels,
                   prioritize, deprioritize, runs, dl, idx, manifests,
                   manifest_actions, depth, fs, img_files, observed, warnings>>

(***************************************************************************)
(* SpecSort: the reordering alone, for every list of up to MaxSortEmotes   *)
(* emotes and every --prioritize / --deprioritize list of up to            *)
(* MaxPrioritize / MaxDeprioritize names.                                  *)
(***************************************************************************)
MaxSortEmotes == 3
MaxPrioritize == 4
MaxDeprioritize == 1

SortEmoteNames == {<<"a">>, <<"A">>, <<"b">>, <<"c">>}
SortArgNames == {<<"a">>, <<"B">>, <<"x">>}

SeqsUpTo(S, n) == UNION {[1..k -> S] : k \in 0..n}

InitSort ==
    /\ model = "Mini"
    /\ name = "a"
    /\ profile_uuid = None
    /\ no_merge = FALSE
    /\ prefix = <<>>
    /\ include_labels = FALSE
    /\ prioritize \in SeqsUpTo(SortArgNames, MaxPrioritize)
    /\ deprioritize \in SeqsUpTo(SortArgNames, MaxDeprioritize)
    /\ runs = 1
    /\ \E names \in SeqsUpTo(SortEmoteNames, MaxSortEmotes) :
          emotes = [k \in DOMAIN names |->
                      [name |-> names[k],
                       url |-> <<"https://yt3.ggpht.com/">> \o Digits(k)]]
    /\ dl = [k \in 1..Len(emotes) |-> "get"]
    /\ pc = "sort"
    /\ idx = 0
    /\ manifests = <<>>
    /\ manifest_actions = <<>>
    /\ depth = 0
    /\ fs = <<>>
    /\ img_files = {}
    /\ observed = <<>>
    /\ warnings = {}

NextSort == SortEmotes

SpecSort == InitSort /\ [][NextSort]_vars

(***************************************************************************)
(* JSON values (serde_json::Value) and the serialized manifest.            *)
(***************************************************************************)
JObj(m) == [t |-> "object", m |-> m]
JStr(str) == [t |-> "string", s |-> str]
JBool(b) == [t |-> "bool", b |-> b]

\* impl Display for Position: "{x},{y}", the key of the Actions object.
PosKey(q) == ToString(q.x) \o "," \o ToString(q.y)

\* uuid_uppercase: uuid.to_string().to_uppercase().
uuid_uppercase(u) == JStr("upper:" \o u)

\* Serialize for Settings: tagged by "UUID", content under "Settings".
SettingsJson(a) ==
    CASE a.settings.uuid = "backtoparent" -> JObj(<<>>)
      [] a.settings.uuid = "openchild" ->
            JObj("ProfileUUID" :> uuid_uppercase(a.settings.profile_uuid))
      [] a.settings.uuid = "text" ->
            JObj("isSendingEnter" :> JBool(FALSE)
                 @@ "pastedText" :> JStr(a.settings.pasted_text))

SettingsTag(a) == "com.elgato.streamdeck." \o
    (CASE a.settings.uuid = "backtoparent" -> "profile.backtoparent"
       [] a.settings.uuid = "openchild" -> "profile.openchild"
       [] a.settings.uuid = "text" -> "system.text")

\* Serialize for Action (the image is skipped).
ActionJson(a) ==
    JObj("Name" :> JStr(a.name)
         @@ "States" :> JObj("Title" :> JStr(a.title))
         @@ "UUID" :> JStr(SettingsTag(a))
         @@ "Settings" :> SettingsJson(a))

\* serde_json::to_value(&manifest)
to_value(manifest, m, nm) ==
    LET acts == manifest.actions
        keys == {PosKey(q) : q \in DOMAIN acts}
    IN JObj("Actions" :> JObj([k \in keys |->
                 ActionJson(acts[CHOOSE q \in DOMAIN acts : PosKey(q) = k])])
            @@ "DeviceModel" :> JStr(id(m))
            @@ "DeviceUUID" :> JStr("")
            @@ "Name" :> JStr(nm)
            @@ "Version" :> JStr("1.0"))

(***************************************************************************)
(* Files.  A manifest.json holds bytes that are not a UTF-8 string, a text *)
(* that is not JSON, or a text that parses to a JSON value.                *)
(***************************************************************************)
NotUtf8File == [kind |-> "bytes", parse |-> None]
NotJsonFile == [kind |-> "text", parse |-> None]

\* serde_json::to_vec(&json): the text that parses back to `json`.
to_vec(json) == [kind |-> "text", parse |-> Some(json)]

\* serde_json::from_str::<Value>(&string): None is the parse error.
from_str(file) == file.parse

\* A button a user placed with the Stream Deck application.
UserButton == JObj("Name" :> JStr("Website") @@ "UUID" :> JStr("com.elgato.streamdeck.system.website")
                   @@ "Settings" :> JObj(<<>>))

\* Position keys of the buttons a manifest found on disk holds.
PersistedKeys == {"0,0", "0,1", "1,0"}

PersistedActions ==
    UNION {[ks -> {UserButton}] : ks \in SUBSET PersistedKeys}

\* The manifests a run can find at a path it has not written itself.
ExistingFiles ==
    {NotUtf8File, NotJsonFile,
     to_vec(JStr("manifest")),
     to_vec(JObj("Name" :> JStr("Emotes"))),
     to_vec(JObj("Actions" :> JStr("none") @@ "Name" :> JStr("Emotes")))}
    \cup {to_vec(JObj("Actions" :> JObj(acts) @@ "Name" :> JStr("Emotes"))) :
            acts \in PersistedActions}

\* Value::pointer("/Actions").and_then(|json| json.as_object())
actions_object(value) ==
    IF value.t = "object" /\ "Actions" \in DOMAIN value.m
       /\ value.m["Actions"].t = "object"
    THEN Some(value.m["Actions"].m)
    ELSE None

ShouldCopy_always(new_actions, pos) == TRUE

\* if !new_actions.contains_key(pos)
ShouldCopy(new_actions, pos) == pos \notin DOMAIN new_actions

\* The loop over old_actions: entries of the old manifest whose key the new
\* one lacks are inserted.
merge_actions(new_actions, old_actions) ==
    [k \in (DOMAIN new_actions) \cup
           {q \in DOMAIN old_actions : ShouldCopy(new_actions, q)} |->
        IF k \in DOMAIN old_actions /\ ShouldCopy(new_actions, k)
        THEN old_actions[k]
        ELSE new_actions[k]]

\* merge_manifests_if_exists(&mut new_manifest, existing_path): `existing`
\* is what fs::read_to_string finds at the path, None when there is no
\* file.  The result is Ok or Err together with new_manifest as it is left.
merge_manifests_if_exists(new_manifest, existing) ==
    LET unchanged(ok) == [ok |-> ok, value |-> new_manifest]
    IN IF existing = None THEN unchanged(TRUE)
       ELSE IF Unwrap(existing).kind # "text" THEN unchanged(FALSE)
       ELSE IF from_str(Unwrap(existing)) = None THEN unchanged(FALSE)
       ELSE LET old_actions == actions_object(Unwrap(from_str(Unwrap(existing))))
                new_actions == actions_object(new_manifest)
            IN IF old_actions = None THEN unchanged(FALSE)
               ELSE IF new_actions = None THEN unchanged(FALSE)
               ELSE [ok |-> TRUE,
                     value |-> [new_manifest EXCEPT !.m["Actions"] =
                         JObj(merge_actions(Unwrap(new_actions), Unwrap(old_actions)))]]

(***************************************************************************)
(* The downloads: one future per emote, all driven by join_all.  A future  *)
(* awaits reqwest::get, checks the status, then awaits the body.           *)
(***************************************************************************)
Terminal(st) == st \in {"ok", "err"}

JoinAllReady_short_circuit(d) ==
    (\E i \in DOMAIN d : d[i] = "err") \/ (\A i \in DOMAIN d : d[i] = "ok")

\* futures::future::join_all resolves when every future has resolved.
JoinAllReady(d) == \A i \in DOMAIN d : Terminal(d[i])

FetchFrame == <<model, name, profile_uuid, no_merge, prefix, include_labels,
                prioritize, deprioritize, runs, emotes, pc, idx, manifests,
                manifest_actions, depth, fs, img_files, observed, warnings>>

\* reqwest::get(&emote.url).await returned a response with a success status.
GetOk ==
    /\ pc = "fetch"
    /\ \E i \in DOMAIN dl :
          /\ dl[i] = "get"
          /\ dl' = [dl EXCEPT ![i] = "bytes"]
    /\ UNCHANGED FetchFrame

\* The call failed, or the status is no success: the future resolves to Err.
GetErr ==
    /\ pc = "fetch"
    /\ \E i \in DOMAIN dl :
          /\ dl[i] = "get"
          /\ dl' = [dl EXCEPT ![i] = "err"]
    /\ UNCHANGED FetchFrame

\* resp.bytes().await returned the image.
BytesOk ==
    /\ pc = "fetch"
    /\ \E i \in DOMAIN dl :
          /\ dl[i] = "bytes"
          /\ dl' = [dl EXCEPT ![i] = "ok"]
    /\ UNCHANGED FetchFrame

\* resp.bytes().await failed.
BytesErr ==
    /\ pc = "fetch"
    /\ \E i \in DOMAIN dl :
          /\ dl[i] = "bytes"
          /\ dl' = [dl EXCEPT ![i] = "err"]
    /\ UNCHANGED FetchFrame

\* join_all(...).await, then collect::<Result<Vec<EmoteImage>>>()?: the
\* first Err makes ProfilesWithImages::new, and with it main, return Err.
JoinAll ==
    /\ pc = "fetch"
    /\ JoinAllReady(dl)
    /\ pc' = IF \E i \in DOMAIN dl : dl[i] = "err" THEN "failed" ELSE "layout"
    /\ UNCHANGED <<model, name, profile_uuid, no_merge, prefix, include_labels,
                   prioritize, deprioritize, runs, emotes, dl, idx, manifests,
                   manifest_actions, depth, fs, img_files, observed, warnings>>

(***************************************************************************)
(* Writing the pages (main, the loop over profiles.manifests).             *)
(***************************************************************************)
\* current_path after the push of "Profiles" and of the page's directory:
\* the directories of the pages 0..d, each named by its identifier.
current_path(ms, d) == [i \in 1..(d + 1) |-> ms[i].uuid]

\* What the run finds at a manifest path: the file it knows of, or, at a
\* path it has neither read nor written, any file the environment holds.
Existing(path) ==
    IF path \in DOMAIN fs THEN {Some(fs[path])}
    ELSE {None} \cup {Some(f) : f \in ExistingFiles}

MergeErrorIsFatal_propagate(res) == ~res.ok

\* if let Err(e) = merge_manifests_if_exists(..) { warn!(..) }: the error
\* is logged and the loop goes on.
MergeErrorIsFatal(res) == FALSE

WrittenJson_manifest(manifest_json, json) == manifest_json

\* fs::write(&manifest_path, serde_json::to_vec(&json)?)
WrittenJson(manifest_json, json) == json

\* One iteration of `for (uuid, manifest) in profiles.manifests`.  The
\* un-nested directory that move_dir looks for at depth >= 2 is made by the
\* Stream Deck application, never by a run: the move ends NotFound.
WritePage ==
    /\ pc = "write"
    /\ depth < Len(manifests)
    /\ LET page == manifests[depth + 1]
           path == current_path(manifests, depth)
           fresh == to_value(page, model, name)
       IN \E existing \in (IF no_merge THEN {None} ELSE Existing(path)) :
            LET res == IF no_merge THEN [ok |-> TRUE, value |-> fresh]
                       ELSE merge_manifests_if_exists(fresh, existing)
            IN /\ observed' = Append(observed, existing)
               /\ warnings' = IF res.ok THEN warnings ELSE warnings \cup {depth}
               /\ IF MergeErrorIsFatal(res)
                  THEN /\ pc' = "failed"
                       /\ UNCHANGED <<fs, img_files, depth>>
                  ELSE /\ pc' = pc
                       /\ fs' = MapInsert(fs, path, to_vec(WrittenJson(fresh, res.value)))
                       /\ img_files' = img_files \cup
                              {<<path, PosKey(q)>> : q \in DOMAIN page.actions}
                       /\ depth' = depth + 1
    /\ UNCHANGED <<model, name, profile_uuid, no_merge, prefix, include_labels,
                   prioritize, deprioritize, runs, emotes, dl, idx, manifests,
                   manifest_actions>>

\* The loop is over; main returns Ok(()).
WriteDone ==
    /\ pc = "write"
    /\ depth = Len(manifests)
    /\ pc' = "done"
    /\ UNCHANGED <<model, name, profile_uuid, no_merge, prefix, include_labels,
                   prioritize, deprioritize, runs, emotes, dl, idx, manifests,
                   manifest_actions, depth, fs, img_files, observed, warnings>>

(***************************************************************************)
(* Spec: a whole run on at most MaxEmotes emotes.                          *)
(***************************************************************************)
Init ==
    /\ model \in DeviceModels
    /\ name \in Names
    /\ profile_uuid \in ProfileUuidArgs
    /\ no_merge \in BOOLEAN
    /\ prefix = <<>>
    /\ include_labels = FALSE
    /\ prioritize = <<>>
    /\ deprioritize = <<>>
    /\ runs = 1
    /\ \E n \in 0..MaxEmotes, c \in Channels : emotes = EmoteList(c, n)
    /\ dl = [k \in 1..Len(emotes) |-> "get"]
    /\ pc = "sort"
    /\ idx = 0
    /\ manifests = <<>>
    /\ manifest_actions = <<>>
    /\ depth = 0
    /\ fs = <<>>
    /\ img_files = {}
    /\ observed = <<>>
    /\ warnings = {}

Next ==
    \/ SortEmotes
    \/ GetOk \/ GetErr \/ BytesOk \/ BytesErr \/ JoinAll
    \/ LayoutStep \/ LayoutFinish
    \/ WritePage \/ WriteDone

Spec == Init /\ [][Next]_vars

(***************************************************************************)
(* SpecRegen: up to MaxRuns runs into the same output location, with the   *)
(* same name, root identifier and device model and with merging enabled.   *)
(* Every run is taken up where join_all has returned every image; the      *)
(* files of the earlier runs stay where they were written.                 *)
(***************************************************************************)
MaxRuns == 2

\* The program is started again on a new emote list.
Rerun ==
    /\ pc = "done"
    /\ runs < MaxRuns
    /\ runs' = runs + 1
    /\ \E n \in 0..MaxEmotes, c \in Channels : emotes' = EmoteList(c, n)
    /\ dl' = [k \in 1..Len(emotes') |-> "ok"]
    /\ pc' = "layout"
    /\ idx' = 0
    /\ manifests' = <<>>
    /\ manifest_actions' = <<>>
    /\ depth' = 0
    /\ observed' = <<>>
    /\ warnings' = {}
    /\ UNCHANGED <<model, name, profile_uuid, no_merge, prefix, include_labels,
                   prioritize, deprioritize, fs, img_files>>

InitRegen ==
    /\ model \in DeviceModels
    /\ name \in Names
    /\ profile_uuid \in {None, Some(Foreign)}
    /\ no_merge = FALSE
    /\ prefix = <<>>
    /\ include_labels = FALSE
    /\ prioritize = <<>>
    /\ deprioritize = <<>>
    /\ runs = 1
    /\ \E n \in 0..MaxEmotes, c \in Channels : emotes = EmoteList(c, n)
    /\ dl = [k \in 1..Len(emotes) |-> "ok"]
    /\ pc = "layout"
    /\ idx = 0
    /\ manifests = <<>>
    /\ manifest_actions = <<>>
    /\ depth = 0
    /\ fs = <<>>
    /\ img_files = {}
    /\ observed = <<>>
    /\ warnings = {}

NextRegen == LayoutStep \/ LayoutFinish \/ WritePage \/ WriteDone \/ Rerun

SpecRegen == InitRegen /\ [][NextRegen]_vars

(***************************************************************************)
(* Properties of the layout.                                               *)
(***************************************************************************)
IsBack(a) == a.settings.uuid = "backtoparent"
IsForward(a) == a.settings.uuid = "openchild"
IsContent(a) == a.settings.uuid = "text"

\* The layout has returned its pages.
Produced == pc \in {"write", "done"}

NumPages == Len(manifests)
Buttons(i) == manifests[i].actions
Bottom == Height(model) - 1

\* C1 (navigation completeness): in a layout of more than one page, the
\* first page has no Back button, every later page has a Back button at
\* (0,0), every page but the last has a Forward button at (0, height-1)
\* whose target is the identifier of the next page, and the last page has
\* no Forward button.
C1_NavigationComplete ==
    (Produced /\ NumPages > 1) =>
        /\ \A q \in DOMAIN Buttons(1) : ~IsBack(Buttons(1)[q])
        /\ \A i \in 2..NumPages :
              /\ Position(0, 0) \in DOMAIN Buttons(i)
              /\ IsBack(Buttons(i)[Position(0, 0)])
        /\ \A i \in 1..(NumPages - 1) :
              /\ Position(0, Bottom) \in DOMAIN Buttons(i)
              /\ IsForward(Buttons(i)[Position(0, Bottom)])
              /\ Buttons(i)[Position(0, Bottom)].settings.profile_uuid
                    = manifests[i + 1].uuid
        /\ \A q \in DOMAIN Buttons(NumPages) :
              ~IsForward(Buttons(NumPages)[q])

\* A chain with a middle page (Back and Forward on the same page) exists.
C1_Witness ==
    /\ Produced
    /\ NumPages >= 3
    /\ model = "XL"
    /\ IsBack(Buttons(2)[Position(0, 0)])
    /\ IsForward(Buttons(2)[Position(0, Bottom)])

CeilDiv(a, b) == (a + b - 1) \div b

\* C2 (page count): n items on a width x height grid give exactly
\* ceil(n / ((width-1)*height)) pages; 0 items give 0 pages and 20 items
\* on the Standard grid give 2 pages.
C2_PageCount ==
    Produced =>
        /\ NumPages = CeilDiv(Len(emotes), (Width(model) - 1) * Height(model))
        /\ (Len(emotes) = 0 => NumPages = 0)
        /\ (model = "Standard" /\ Len(emotes) = 20 => NumPages = 2)

\* 20 items on the Standard grid have been laid out.
C2_Witness ==
    Produced /\ model = "Standard" /\ Len(emotes) = 20 /\ NumPages = 2

\* C3 (grid bounds): every button position of every page satisfies
\* column < width and row < height, navigation buttons included, and the
\* slot list of the page being filled never exceeds width*height entries.
C3_WithinGrid ==
    /\ Len(manifest_actions) <= Width(model) * Height(model)
    /\ \A i \in 1..NumPages : \A q \in DOMAIN Buttons(i) :
          /\ q.x >= 0 /\ q.x < Width(model)
          /\ q.y >= 0 /\ q.y < Height(model)

\* A full page next to one that carries both navigation buttons.
C3_Witness ==
    /\ Produced
    /\ NumPages >= 3
    /\ Position(Width(model) - 1, Bottom) \in DOMAIN Buttons(2)
    /\ Position(0, 0) \in DOMAIN Buttons(2)
    /\ Position(0, Bottom) \in DOMAIN Buttons(2)

\* C4 (navigation column): column 0 holds no content button; (0,0) holds
\* a Back button exactly on the pages after the first, (0, height-1) a
\* Forward button exactly on the pages before the last, and every other
\* column-0 position is unoccupied.
C4_NavigationColumn ==
    Produced =>
        \A i \in 1..NumPages :
            /\ \A q \in DOMAIN Buttons(i) : q.x = 0 => ~IsContent(Buttons(i)[q])
            /\ (Position(0, 0) \in DOMAIN Buttons(i)) <=> (i > 1)
            /\ (Position(0, 0) \in DOMAIN Buttons(i))
                  => IsBack(Buttons(i)[Position(0, 0)])
            /\ (Position(0, Bottom) \in DOMAIN Buttons(i)) <=> (i < NumPages)
            /\ (Position(0, Bottom) \in DOMAIN Buttons(i))
                  => IsForward(Buttons(i)[Position(0, Bottom)])
            /\ \A q \in DOMAIN Buttons(i) :
                  q.x = 0 => q \in {Position(0, 0), Position(0, Bottom)}

\* A page with several rows of content and an interior column-0 cell.
C4_Witness ==
    /\ Produced
    /\ NumPages >= 2
    /\ Height(model) >= 3
    /\ Position(1, 1) \in DOMAIN Buttons(1)
    /\ Position(0, 1) \notin DOMAIN Buttons(1)

\* C5 (identifier uniqueness): no two pages of the produced sequence carry
\* the same identifier, whichever root identifier the caller supplies.
C5_UniqueIdentifiers ==
    Produced =>
        \A i, j \in 1..NumPages : i # j => manifests[i].uuid # manifests[j].uuid

\* C6 (identifier assignment): page 0 carries the root identifier the
\* caller passed, derive(name, 0) when there is no override, and page
\* k >= 1 carries derive(name, k), whatever the items are.
C6_IdentifierAssignment ==
    \A i \in 1..NumPages :
        manifests[i].uuid =
            IF i = 1
            THEN (IF profile_uuid = None
                  THEN name \o "_page0"
                  ELSE Unwrap(profile_uuid))
            ELSE name \o "_page" \o ToString(i - 1)

\* A chain of three pages whose root identifier was overridden.
C6_Witness ==
    /\ Produced
    /\ NumPages >= 3
    /\ profile_uuid = Some(Foreign)
    /\ manifests[1].uuid = Foreign
    /\ manifests[3].uuid = uuid_v5(name, 2)

(***************************************************************************)
(* Properties of the merge and of the run.                                 *)
(***************************************************************************)
\* The pages the write loop has gone through with merging enabled.
Merged == IF no_merge THEN {} ELSE 1..Len(observed)

PathOf(i) == current_path(manifests, i - 1)
FreshJson(i) == to_value(manifests[i], model, name)
FreshActions(i) == FreshJson(i).m["Actions"].m
WrittenValue(i) == Unwrap(from_str(fs[PathOf(i)]))
WrittenActions(i) == WrittenValue(i).m["Actions"].m

\* The manifest found at page i's path parses into an Actions object.
Parseable(i) ==
    /\ observed[i] # None
    /\ Unwrap(observed[i]).kind = "text"
    /\ from_str(Unwrap(observed[i])) # None
    /\ actions_object(Unwrap(from_str(Unwrap(observed[i])))) # None

PersistedActionsOf(i) ==
    Unwrap(actions_object(Unwrap(from_str(Unwrap(observed[i])))))

\* The manifest found at page i's path exists and is malformed.
Malformed(i) == observed[i] # None /\ ~Parseable(i)

\* C7 (merge keeps fresh, preserves persisted-only): for a fresh page and a
\* parseable persisted page, the written button map has exactly the union
\* of both key sets, every key of the fresh page maps to the fresh button
\* and every key only the persisted page has maps to the persisted button.
C7_MergeKeepsFresh ==
    \A i \in Merged :
        (Parseable(i) /\ PathOf(i) \in DOMAIN fs) =>
            /\ DOMAIN WrittenActions(i)
                 = (DOMAIN FreshActions(i)) \cup (DOMAIN PersistedActionsOf(i))
            /\ \A k \in DOMAIN FreshActions(i) :
                 WrittenActions(i)[k] = FreshActions(i)[k]
            /\ \A k \in (DOMAIN PersistedActionsOf(i)) \ (DOMAIN FreshActions(i)) :
                 WrittenActions(i)[k] = PersistedActionsOf(i)[k]

\* A page merged with a persisted page that shares a key with it and has a
\* key of its own.
C7_Witness ==
    \E i \in Merged :
        /\ Parseable(i)
        /\ PathOf(i) \in DOMAIN fs
        /\ (DOMAIN PersistedActionsOf(i)) \cap (DOMAIN FreshActions(i)) # {}
        /\ (DOMAIN PersistedActionsOf(i)) \ (DOMAIN FreshActions(i)) # {}
        /\ \E k \in DOMAIN FreshActions(i) :
              /\ k \in DOMAIN PersistedActionsOf(i)
              /\ PersistedActionsOf(i)[k] # FreshActions(i)[k]

\* C8 (merge idempotence): merging with no persisted page returns the
\* fresh page, and merging the written result with the same persisted page
\* again returns that result unchanged.
C8_MergeIdempotent ==
    \A i \in Merged :
        PathOf(i) \in DOMAIN fs =>
            /\ merge_manifests_if_exists(FreshJson(i), None).value = FreshJson(i)
            /\ (observed[i] = None => WrittenValue(i) = FreshJson(i))
            /\ merge_manifests_if_exists(WrittenValue(i), observed[i]).value
                 = WrittenValue(i)
            /\ LET once == merge_manifests_if_exists(FreshJson(i), observed[i]).value
               IN merge_manifests_if_exists(once, observed[i]).value = once

\* A page without a persisted manifest and a page whose persisted manifest
\* added a button both have been written.
C8_Witness ==
    /\ \E i \in Merged : observed[i] = None /\ PathOf(i) \in DOMAIN fs
    /\ \E i \in Merged :
          /\ Parseable(i)
          /\ PathOf(i) \in DOMAIN fs
          /\ WrittenValue(i) # FreshJson(i)

\* C9 (malformed persisted manifest): when the manifest found is unreadable,
\* is no JSON or has no Actions object, the merge reports an error that is
\* logged as a warning, the fresh manifest is written exactly as computed,
\* the run is not aborted and the remaining pages are processed.
C9_MalformedIsNotFatal ==
    /\ \A i \in Merged :
          Malformed(i) =>
              /\ ~merge_manifests_if_exists(FreshJson(i), observed[i]).ok
              /\ (i - 1) \in warnings
              /\ PathOf(i) \in DOMAIN fs
              /\ WrittenValue(i) = FreshJson(i)
              /\ pc \in {"write", "done"}
              /\ depth >= i
    /\ \A d \in warnings : (d + 1) \in Merged /\ Malformed(d + 1)
    /\ pc = "done" =>
          /\ depth = NumPages
          /\ \A i \in 1..NumPages : PathOf(i) \in DOMAIN fs
    /\ (pc = "write" /\ depth < NumPages) => ENABLED WritePage

\* A run whose first page met a malformed manifest wrote its second page
\* and ended.
C9_Witness ==
    /\ pc = "done"
    /\ NumPages = 2
    /\ ~no_merge
    /\ Malformed(1)
    /\ 0 \in warnings
    /\ PathOf(2) \in DOMAIN fs

\* C10 (downloads are all-or-nothing): the layout runs only after every
\* download has completed successfully; a failure is reported only when
\* every download has run to completion, and then no page is produced and
\* no file is written.
C10_AllOrNothing ==
    /\ pc \in {"layout", "write", "done"} => \A i \in DOMAIN dl : dl[i] = "ok"
    /\ pc = "fetch" =>
          /\ idx = 0 /\ manifests = <<>> /\ manifest_actions = <<>>
          /\ fs = <<>> /\ img_files = {}
    /\ pc = "failed" =>
          /\ \E i \in DOMAIN dl : dl[i] = "err"
          /\ \A i \in DOMAIN dl : Terminal(dl[i])
          /\ manifests = <<>>
          /\ fs = <<>>
          /\ img_files = {}

\* A failed run in which a download that was still in flight when the
\* first one failed has completed.
C10_Witness ==
    /\ pc = "failed"
    /\ Len(emotes) >= 3
    /\ dl[1] = "err"
    /\ dl[2] = "ok"
    /\ dl[3] = "err"

(***************************************************************************)
(* Properties of the content buttons.                                      *)
(***************************************************************************)
\* The content buttons built so far: those of the slot list being filled
\* and those of the finished pages.
ContentButtons ==
    {Unwrap(manifest_actions[i]) :
        i \in {j \in DOMAIN manifest_actions : IsSome(manifest_actions[j])}}
    \cup UNION {{manifests[i].actions[q] :
                    q \in {r \in DOMAIN manifests[i].actions :
                             manifests[i].actions[r].settings.uuid = "text"}} :
                i \in DOMAIN manifests}

\* The label as the claim words it: the first character ASCII-uppercased
\* when prefix and label are both non-empty, the label verbatim otherwise.
ExpectedLabel(pre, label) ==
    IF pre # <<>> /\ label # <<>>
    THEN <<ascii_uppercase(label[1])>> \o Tail(label)
    ELSE label

\* C11 (content button payload): the payload of an emote's button is
\* ":_" + prefix + Label + ":", Label being the label with its first
\* character ASCII-uppercased when prefix and label are both non-empty and
\* the label verbatim otherwise; "small9cm" under "pomu" gives
\* ":_pomuSmall9cm:", "hic1" under "" gives ":_hic1:".
C11_Payload ==
    \A b \in ContentButtons :
        /\ b.settings.pasted_text
             = <<":", "_">> \o prefix \o ExpectedLabel(prefix, emotes[1].name) \o <<":">>
        /\ (emotes[1].name = Small9cm /\ prefix = Pomu) =>
              b.settings.pasted_text
                = <<":", "_", "p", "o", "m", "u", "S", "m", "a", "l", "l", "9", "c", "m", ":">>
        /\ (emotes[1].name = Hic1 /\ prefix = <<>>) =>
              b.settings.pasted_text = <<":", "_", "h", "i", "c", "1", ":">>

\* The button of "small9cm" under the prefix "pomu" is on the page.
C11_Witness ==
    /\ pc = "write"
    /\ emotes[1].name = Small9cm
    /\ prefix = Pomu
    /\ NumPages = 1
    /\ Buttons(1)[Position(1, 0)].settings.pasted_text
         = <<":", "_", "p", "o", "m", "u", "S", "m", "a", "l", "l", "9", "c", "m", ":">>

(***************************************************************************)
(* Properties of the reordering.                                           *)
(***************************************************************************)
Sorted == pc # "sort"

MatchesPrioritize(e) == IsSome(position(prioritize, to_ascii_lowercase(e.name)))
MatchesDeprioritize(e) == IsSome(position(deprioritize, to_ascii_lowercase(e.name)))
PrioritizePos(e) == Unwrap(position(prioritize, to_ascii_lowercase(e.name)))

\* C12 (prioritized first): every emote that matches an entry of the
\* prioritize list comes before every emote that matches none, and the
\* prioritized emotes are ordered by their position in the prioritize list.
C12_PrioritizedFirst ==
    Sorted =>
        \A i, j \in DOMAIN emotes :
            /\ (MatchesPrioritize(emotes[i]) /\ ~MatchesPrioritize(emotes[j])) => i < j
            /\ (/\ MatchesPrioritize(emotes[i])
                /\ MatchesPrioritize(emotes[j])
                /\ PrioritizePos(emotes[i]) < PrioritizePos(emotes[j])) => i < j

\* C13 (deprioritized last): every emote that matches an entry of the
\* deprioritize list and none of the prioritize list comes after every
\* emote that matches no entry of the deprioritize list.
C13_DeprioritizedLast ==
    Sorted =>
        \A i, j \in DOMAIN emotes :
            (/\ MatchesDeprioritize(emotes[i])
             /\ ~MatchesPrioritize(emotes[i])
             /\ ~MatchesDeprioritize(emotes[j])) => j < i

\* Both orders hold when every matched entry of the prioritize list stands
\* at a position below the number of emotes.
PrioritizeWithinCount ==
    \A i \in DOMAIN emotes :
        MatchesPrioritize(emotes[i]) => PrioritizePos(emotes[i]) < Len(emotes)

SortOrderWithinCount ==
    PrioritizeWithinCount =>
        (C12_PrioritizedFirst /\ C13_DeprioritizedLast)

(***************************************************************************)
(* Properties of the content placement.                                    *)
(***************************************************************************)
ContentCells ==
    UNION {{<<i, q>> : q \in {r \in DOMAIN Buttons(i) : IsContent(Buttons(i)[r])}} :
           i \in 1..NumPages}

\* C14 (content placement): with P = (width-1)*height, the item at 0-based
\* index k is on page k div P at position (1 + (j mod (width-1)),
\* j div (width-1)), j = k mod P, carrying that item's payload; there are
\* as many content buttons as items, so every item appears exactly once
\* and the Back and Forward buttons replace none; every page holds a
\* content button.
C14_ContentPlacement ==
    Produced =>
        LET w1 == Width(model) - 1
            P == w1 * Height(model)
        IN /\ \A k \in 0..(Len(emotes) - 1) :
                LET j == k % P
                    pg == (k \div P) + 1
                    q == Position(1 + (j % w1), j \div w1)
                IN /\ pg \in 1..NumPages
                   /\ q \in DOMAIN Buttons(pg)
                   /\ IsContent(Buttons(pg)[q])
                   /\ Buttons(pg)[q].settings.pasted_text
                        = <<":", "_">> \o prefix
                            \o ExpectedLabel(prefix, emotes[k + 1].name) \o <<":">>
           /\ Cardinality(ContentCells) = Len(emotes)
           /\ \A i \in 1..NumPages :
                \E q \in DOMAIN Buttons(i) : IsContent(Buttons(i)[q])

\* Three pages of the Standard grid, the middle one full, with the first
\* item of the last page in its place.
C14_Witness ==
    /\ Produced
    /\ model = "Standard"
    /\ NumPages = 3
    /\ Len(emotes) = 25
    /\ prefix = Pomu
    /\ IsContent(Buttons(2)[Position(4, 2)])
    /\ Buttons(3)[Position(1, 0)].settings.pasted_text
         = <<":", "_">> \o Pomu \o <<"H", "i", "c", "2", "5">> \o <<":">>

(***************************************************************************)
(* Properties of the written chain.                                        *)
(***************************************************************************)
IsForwardJson(v) ==
    /\ v.t = "object"
    /\ "UUID" \in DOMAIN v.m
    /\ v.m["UUID"] = JStr("com.elgato.streamdeck.profile.openchild")

\* C15 (the written chain stays linear): after any sequence of runs into
\* the same output location, with the same name and root identifier and
\* merging enabled, the manifest written for the last page of the latest
\* run holds no Forward button.
C15_LastPageHasNoForward ==
    (pc = "done" /\ NumPages >= 1) =>
        \A k \in DOMAIN WrittenActions(NumPages) :
            ~IsForwardJson(WrittenActions(NumPages)[k])

\* The same holds of a first run into a location no run has written to.
C15_FirstRunLastPageHasNoForward ==
    (pc = "done" /\ NumPages >= 1 /\ runs = 1) =>
        \A k \in DOMAIN WrittenActions(NumPages) :
            ~IsForwardJson(WrittenActions(NumPages)[k])

====
